---- MODULE Spec2Model ----
(***************************************************************************)
(* Model of the read-only SWC fantasy football API                         *)
(* (src/chapter6/complete/main.py).                                        *)
(*                                                                         *)
(* The state is the entity store (four tables in store order) and a pool   *)
(* of request workers.  A request goes through three steps: the framework  *)
(* resolves the dependencies of the route (get_db up to its yield, then    *)
(* the binding of path and query parameters), the endpoint function runs,  *)
(* and the generator dependency is finalised (get_db's finally clause).    *)
(*                                                                         *)
(* Query strings are kept as text and parsed by table, dates are day       *)
(* ordinals.  An optional value is a sequence of length 0 (None) or 1.     *)
(***************************************************************************)
EXTENDS Integers, Sequences, FiniteSets, TLC

VARIABLES store, workers, sessions

vars == <<store, workers, sessions>>

(***************************************************************************)
(* Bounds of the model.                                                    *)
(***************************************************************************)
MaxRows == 2
MaxWorkers == 2
BigRows == 101

None == <<>>
Some(v) == <<v>>

Min(a, b) == IF a < b THEN a ELSE b
Max(a, b) == IF a > b THEN a ELSE b

(***************************************************************************)
(* Query(0, ...) and Query(100, ...): the defaults of skip and limit.      *)
(***************************************************************************)
DefaultSkip == 0
\* A slip: the default of limit copied from skip.
DefaultLimitAsSkip == DefaultSkip
DefaultLimit == 100

(***************************************************************************)
(* Parsing of query and path text.  int: a decimal integer or a            *)
(* validation error; date: an ISO date or a validation error.              *)
(***************************************************************************)
IntTable ==
    ("-1" :> -1) @@ ("0" :> 0) @@ ("1" :> 1) @@ ("2" :> 2) @@ ("3" :> 3) @@ ("9" :> 9)

DateTable == ("2024-01-01" :> 1) @@ ("2024-06-01" :> 2) @@ ("2024-12-01" :> 3)

IsInt(s) == s \in DOMAIN IntTable
ParseInt(s) == IntTable[s]
IsDate(s) == s \in DOMAIN DateTable
ParseDate(s) == DateTable[s]

(***************************************************************************)
(* The entity store.  Internal ids carry no order: they run against the    *)
(* store order here.                                                       *)
(***************************************************************************)
IdAt(i, n) == n + 1 - i

SeqsUpTo(S, n) == UNION {[1..k -> S] : k \in 0..n}

PlayerRows ==
    { [first_name |-> "Josh", last_name |-> "Allen", last_changed_date |-> 1],
      [first_name |-> "Josh", last_name |-> "Jacobs", last_changed_date |-> 2],
      [first_name |-> "Patrick", last_name |-> "Mahomes", last_changed_date |-> 2] }

PerformanceRows == { [last_changed_date |-> 1], [last_changed_date |-> 2] }

LeagueRows ==
    { [league_name |-> "Pigskin", last_changed_date |-> 1],
      [league_name |-> "Pigskin", last_changed_date |-> 2],
      [league_name |-> "Gridiron", last_changed_date |-> 2] }

TeamRows ==
    { [team_name |-> "Aces", league_id |-> 1, last_changed_date |-> 1],
      [team_name |-> "Aces", league_id |-> 2, last_changed_date |-> 2],
      [team_name |-> "Bears", league_id |-> 1, last_changed_date |-> 2] }

PlayerTable(rows) ==
    [i \in 1..Len(rows) |->
        [player_id |-> IdAt(i, Len(rows)), first_name |-> rows[i].first_name,
         last_name |-> rows[i].last_name,
         last_changed_date |-> rows[i].last_changed_date]]

PerformanceTable(rows) ==
    [i \in 1..Len(rows) |->
        [performance_id |-> IdAt(i, Len(rows)),
         last_changed_date |-> rows[i].last_changed_date]]

LeagueTable(rows) ==
    [i \in 1..Len(rows) |->
        [league_id |-> IdAt(i, Len(rows)), league_name |-> rows[i].league_name,
         last_changed_date |-> rows[i].last_changed_date]]

TeamTable(rows) ==
    [i \in 1..Len(rows) |->
        [team_id |-> IdAt(i, Len(rows)), team_name |-> rows[i].team_name,
         league_id |-> rows[i].league_id,
         last_changed_date |-> rows[i].last_changed_date]]

\* The three players of the spec's scenario, and small fixed tables.
BasePlayers ==
    PlayerTable(<<
        [first_name |-> "Josh", last_name |-> "Allen", last_changed_date |-> 1],
        [first_name |-> "Josh", last_name |-> "Jacobs", last_changed_date |-> 2],
        [first_name |-> "Patrick", last_name |-> "Mahomes", last_changed_date |-> 2] >>)

BasePerformances ==
    PerformanceTable(<< [last_changed_date |-> 2], [last_changed_date |-> 1] >>)

BaseLeagues == LeagueTable(<< [league_name |-> "Pigskin", last_changed_date |-> 1] >>)

BaseTeams ==
    TeamTable(<<
        [team_name |-> "Aces", league_id |-> 1, last_changed_date |-> 1],
        [team_name |-> "Bears", league_id |-> 1, last_changed_date |-> 2] >>)

BaseStore ==
    [players |-> BasePlayers, performances |-> BasePerformances,
     leagues |-> BaseLeagues, teams |-> BaseTeams]

\* A table longer than the default page.
BigPerformances ==
    PerformanceTable([i \in 1..BigRows |-> [last_changed_date |-> 1 + (i % 2)]])

\* The stores: one table ranges over every content up to MaxRows rows.
Stores ==
    { [BaseStore EXCEPT !.players = PlayerTable(r)] : r \in SeqsUpTo(PlayerRows, MaxRows) }
    \cup { [BaseStore EXCEPT !.performances = PerformanceTable(r)] :
              r \in SeqsUpTo(PerformanceRows, MaxRows) }
    \cup { [BaseStore EXCEPT !.leagues = LeagueTable(r)] : r \in SeqsUpTo(LeagueRows, MaxRows) }
    \cup { [BaseStore EXCEPT !.teams = TeamTable(r)] : r \in SeqsUpTo(TeamRows, MaxRows) }
    \cup { [BaseStore EXCEPT !.performances = BigPerformances] }

\* The store of the concurrent runs.
ConcStores == { BaseStore }

(***************************************************************************)
(* Requests.  Every field is optional text: None when the parameter is     *)
(* not in the query string.                                                *)
(***************************************************************************)
Req(ep, id, skip, limit, date, fn, ln, lname, tname, lid) ==
    [ep |-> ep, path_id |-> id, skip |-> skip, limit |-> limit,
     minimum_last_changed_date |-> date, first_name |-> fn, last_name |-> ln,
     league_name |-> lname, team_name |-> tname, league_id |-> lid]

NoReq == Req("none", None, None, None, None, None, None, None, None, None)

ListEndpoints == {"read_players", "read_performances", "read_leagues", "read_teams"}
LookupEndpoints == {"read_player", "read_league"}

Skips == {None, Some("-1"), Some("0"), Some("1"), Some("2"), Some("x")}
Limits == {None, Some("-1"), Some("0"), Some("1"), Some("2")}
MinDates == {None, Some("2024-01-01"), Some("2024-06-01")}
PathIds == {Some("1"), Some("3"), Some("9"), Some("x")}

Requests ==
    { Req("root", None, None, None, None, None, None, None, None, None),
      Req("get_count", None, None, None, None, None, None, None, None, None) }
    \cup { Req(ep, id, None, None, None, None, None, None, None, None) :
              ep \in LookupEndpoints, id \in PathIds }
    \cup { Req("read_players", None, s, l, d, fn, ln, None, None, None) :
              s \in Skips, l \in Limits, d \in MinDates,
              fn \in {None, Some("Josh"), Some("Patrick")},
              ln \in {None, Some("Allen"), Some("Jacobs")} }
    \cup { Req("read_performances", None, s, l, d, None, None, None, None, None) :
              s \in Skips, l \in Limits, d \in MinDates \cup {Some("yesterday")} }
    \cup { Req("read_leagues", None, s, l, d, None, None, n, None, None) :
              s \in Skips, l \in Limits, d \in MinDates,
              n \in {None, Some("Pigskin"), Some("Gridiron")} }
    \cup { Req("read_teams", None, s, l, d, None, None, None, n, lid) :
              s \in Skips, l \in Limits, d \in MinDates,
              n \in {None, Some("Aces"), Some("Bears")},
              lid \in {None, Some("1"), Some("2")} }

\* The requests of the concurrent runs: pages of the unfiltered player list,
\* a lookup and the health check.
ConcRequests ==
    { Req("root", None, None, None, None, None, None, None, None, None),
      Req("read_player", Some("9"), None, None, None, None, None, None, None, None) }
    \cup { Req("read_players", None, Some(p[1]), Some(p[2]), None, None, None, None,
                None, None) :
              p \in { <<"0", "1">>, <<"1", "1">>, <<"1", "2">> } }

(***************************************************************************)
(* The data-access layer (crud).  A list query builds the conjunction of   *)
(* the present filters, then applies offset(skip) and limit(limit).  As in *)
(* SQLite, a negative offset skips nothing and a negative limit is no      *)
(* limit.                                                                  *)
(***************************************************************************)
Offset(rows, skip) ==
    LET k == Min(Max(skip, 0), Len(rows))
    IN  [i \in 1..(Len(rows) - k) |-> rows[i + k]]

Limit(rows, limit) ==
    IF limit < 0 THEN rows ELSE [i \in 1..Min(limit, Len(rows)) |-> rows[i]]

First(rows) == IF Len(rows) = 0 THEN None ELSE Some(rows[1])

FilterMinDate(rows, d) ==
    IF d = None THEN rows ELSE SelectSeq(rows, LAMBDA r : r.last_changed_date >= d[1])

crud_get_players(db, skip, limit, min_last_changed_date, first_name, last_name) ==
    LET q1 == FilterMinDate(db.players, min_last_changed_date)
        q2 == IF first_name = None THEN q1
              ELSE SelectSeq(q1, LAMBDA r : r.first_name = first_name[1])
        q3 == IF last_name = None THEN q2
              ELSE SelectSeq(q2, LAMBDA r : r.last_name = last_name[1])
    IN  Limit(Offset(q3, skip), limit)

crud_get_performances(db, skip, limit, min_last_changed_date) ==
    Limit(Offset(FilterMinDate(db.performances, min_last_changed_date), skip), limit)

crud_get_leagues(db, skip, limit, min_last_changed_date, league_name) ==
    LET q1 == FilterMinDate(db.leagues, min_last_changed_date)
        q2 == IF league_name = None THEN q1
              ELSE SelectSeq(q1, LAMBDA r : r.league_name = league_name[1])
    IN  Limit(Offset(q2, skip), limit)

crud_get_teams(db, skip, limit, min_last_changed_date, team_name, league_id) ==
    LET q1 == FilterMinDate(db.teams, min_last_changed_date)
        q2 == IF team_name = None THEN q1
              ELSE SelectSeq(q1, LAMBDA r : r.team_name = team_name[1])
        q3 == IF league_id = None THEN q2
              ELSE SelectSeq(q2, LAMBDA r : r.league_id = league_id[1])
    IN  Limit(Offset(q3, skip), limit)

\* first(): the first match, or None.
crud_get_player(db, player_id) ==
    First(SelectSeq(db.players, LAMBDA r : r.player_id = player_id))

crud_get_league(db, league_id) ==
    First(SelectSeq(db.leagues, LAMBDA r : r.league_id = league_id))

crud_get_league_count(db) == Len(db.leagues)
crud_get_team_count(db) == Len(db.teams)
crud_get_player_count(db) == Len(db.players)

(***************************************************************************)
(* The endpoint functions.  Each yields what it returns or raises and the  *)
(* data-access calls it makes.                                             *)
(***************************************************************************)
Return(v, calls) == [exc |-> FALSE, status |-> 200, detail |-> "", value |-> v, calls |-> calls]

HTTPException(status_code, detail, calls) ==
    [exc |-> TRUE, status |-> status_code, detail |-> detail, value |-> None, calls |-> calls]

ListCall(fn, skip, limit, date, filters) ==
    [fn |-> fn, skip |-> skip, limit |-> limit, min_last_changed_date |-> date,
     filters |-> filters]

root == Return(<<[message |-> "API health check succeeded"]>>, <<>>)

\* A slip: the page number taken for the offset.
read_players_SkipOffByOne(db, skip, limit, minimum_last_changed_date, first_name, last_name) ==
    Return(crud_get_players(db, skip + 1, limit, minimum_last_changed_date,
                            first_name, last_name),
           << ListCall("get_players", skip + 1, limit, minimum_last_changed_date,
                       [first_name |-> first_name, last_name |-> last_name]) >>)

read_players(db, skip, limit, minimum_last_changed_date, first_name, last_name) ==
    Return(crud_get_players(db, skip, limit, minimum_last_changed_date,
                            first_name, last_name),
           << ListCall("get_players", skip, limit, minimum_last_changed_date,
                       [first_name |-> first_name, last_name |-> last_name]) >>)

\* A slip: the result returned without the check for None.
read_player_NoNoneCheck(db, player_id) ==
    Return(crud_get_player(db, player_id),
           << [fn |-> "get_player", player_id |-> player_id] >>)

read_player(db, player_id) ==
    LET player == crud_get_player(db, player_id)
        calls == << [fn |-> "get_player", player_id |-> player_id] >>
    IN  IF player = None
        THEN HTTPException(404, "player not found", calls)
        ELSE Return(player, calls)

\* A slip: the date filter not handed on.
read_performances_IgnoresDate(db, skip, limit, minimum_last_changed_date) ==
    Return(crud_get_performances(db, skip, limit, None),
           << ListCall("get_performances", skip, limit, None, <<>>) >>)

read_performances(db, skip, limit, minimum_last_changed_date) ==
    Return(crud_get_performances(db, skip, limit, minimum_last_changed_date),
           << ListCall("get_performances", skip, limit, minimum_last_changed_date,
                       <<>>) >>)

read_league(db, league_id) ==
    LET league == crud_get_league(db, league_id)
        calls == << [fn |-> "get_league", league_id |-> league_id] >>
    IN  IF league = None
        THEN HTTPException(404, "league not found", calls)
        ELSE Return(league, calls)

\* A slip: skip and limit handed on the wrong way round.
read_leagues_SwapsSkipLimit(db, skip, limit, minimum_last_changed_date, league_name) ==
    Return(crud_get_leagues(db, limit, skip, minimum_last_changed_date, league_name),
           << ListCall("get_leagues", limit, skip, minimum_last_changed_date,
                       [league_name |-> league_name]) >>)

read_leagues(db, skip, limit, minimum_last_changed_date, league_name) ==
    Return(crud_get_leagues(db, skip, limit, minimum_last_changed_date, league_name),
           << ListCall("get_leagues", skip, limit, minimum_last_changed_date,
                       [league_name |-> league_name]) >>)

\* A slip: the league_id filter not handed on.
read_teams_DropsLeagueId(db, skip, limit, minimum_last_changed_date, team_name, league_id) ==
    Return(crud_get_teams(db, skip, limit, minimum_last_changed_date, team_name, None),
           << ListCall("get_teams", skip, limit, minimum_last_changed_date,
                       [team_name |-> team_name, league_id |-> None]) >>)

read_teams(db, skip, limit, minimum_last_changed_date, team_name, league_id) ==
    Return(crud_get_teams(db, skip, limit, minimum_last_changed_date,
                          team_name, league_id),
           << ListCall("get_teams", skip, limit, minimum_last_changed_date,
                       [team_name |-> team_name, league_id |-> league_id]) >>)

\* A slip: team_count copied from league_count.
get_count_TeamCountFromLeagues(db) ==
    Return(<< [league_count |-> crud_get_league_count(db),
               team_count |-> crud_get_league_count(db),
               player_count |-> crud_get_player_count(db)] >>,
           << [fn |-> "get_league_count"], [fn |-> "get_league_count"],
              [fn |-> "get_player_count"] >>)

get_count(db) ==
    Return(<< [league_count |-> crud_get_league_count(db),
               team_count |-> crud_get_team_count(db),
               player_count |-> crud_get_player_count(db)] >>,
           << [fn |-> "get_league_count"], [fn |-> "get_team_count"],
              [fn |-> "get_player_count"] >>)

(***************************************************************************)
(* The framework around an endpoint: binding of the declared parameters    *)
(* (int, date, str; a default where the parameter is absent), the call of  *)
(* the endpoint function, and the response.                                *)
(***************************************************************************)
OptIntOk(opt) == opt = None \/ IsInt(opt[1])
OptDateOk(opt) == opt = None \/ IsDate(opt[1])

ValidParams(q) ==
    CASE q.ep \in ListEndpoints ->
            /\ OptIntOk(q.skip)
            /\ OptIntOk(q.limit)
            /\ OptDateOk(q.minimum_last_changed_date)
            /\ OptIntOk(q.league_id)
      [] q.ep \in LookupEndpoints -> q.path_id # None /\ IsInt(q.path_id[1])
      [] OTHER -> TRUE

BindInt(opt, default) == IF opt = None THEN default ELSE ParseInt(opt[1])
BindOptInt(opt) == IF opt = None THEN None ELSE Some(ParseInt(opt[1]))
BindOptDate(opt) == IF opt = None THEN None ELSE Some(ParseDate(opt[1]))

\* The endpoint function of the route, applied to the bound parameters.
CallEndpoint(db, q) ==
    CASE q.ep = "root" -> root
      [] q.ep = "read_players" ->
            read_players(db, BindInt(q.skip, DefaultSkip), BindInt(q.limit, DefaultLimit),
                         BindOptDate(q.minimum_last_changed_date),
                         q.first_name, q.last_name)
      [] q.ep = "read_player" -> read_player(db, ParseInt(q.path_id[1]))
      [] q.ep = "read_performances" ->
            read_performances(db, BindInt(q.skip, DefaultSkip),
                              BindInt(q.limit, DefaultLimit),
                              BindOptDate(q.minimum_last_changed_date))
      [] q.ep = "read_league" -> read_league(db, ParseInt(q.path_id[1]))
      [] q.ep = "read_leagues" ->
            read_leagues(db, BindInt(q.skip, DefaultSkip), BindInt(q.limit, DefaultLimit),
                         BindOptDate(q.minimum_last_changed_date), q.league_name)
      [] q.ep = "read_teams" ->
            read_teams(db, BindInt(q.skip, DefaultSkip), BindInt(q.limit, DefaultLimit),
                       BindOptDate(q.minimum_last_changed_date), q.team_name,
                       BindOptInt(q.league_id))
      [] q.ep = "get_count" -> get_count(db)

NoResp == [exc |-> FALSE, status |-> 0, detail |-> "", value |-> None, calls |-> <<>>]

ValidationError ==
    [exc |-> TRUE, status |-> 422, detail |-> "validation error", value |-> None,
     calls |-> <<>>]

\* A data-access call that raises: the exception leaves the endpoint function.
StoreError(calls) ==
    [exc |-> TRUE, status |-> 500, detail |-> "store error", value |-> None,
     calls |-> << calls[1] >>]

\* response_model of a single-record route: a result of None does not validate.
ResponseError(calls) ==
    [exc |-> TRUE, status |-> 500, detail |-> "response validation error",
     value |-> None, calls |-> calls]

Outcome(db, q, up) ==
    LET r == CallEndpoint(db, q)
    IN  IF r.calls # <<>> /\ ~up THEN StoreError(r.calls)
        ELSE IF ~r.exc /\ q.ep \in LookupEndpoints /\ r.value = None
             THEN ResponseError(r.calls)
        ELSE r

(***************************************************************************)
(* Sessions.  SessionLocal() makes a new session object; get_db yields it  *)
(* and closes it in its finally clause.                                    *)
(***************************************************************************)
FreeSessions(ss) == { s \in DOMAIN ss : ss[s].state = "free" }

SessionLocal(ss) == CHOOSE s \in FreeSessions(ss) : \A t \in FreeSessions(ss) : s <= t

close(ss, s) == [ss EXCEPT ![s] = [state |-> "closed", closes |-> ss[s].closes + 1]]

\* db = SessionLocal(); try: yield db
get_db_yield(ss) ==
    LET db == SessionLocal(ss)
    IN  [db |-> db, sessions |-> [ss EXCEPT ![db] = [state |-> "open", closes |-> 0]]]

\* A slip: db.close() after the yield without try/finally.
get_db_NoFinally(ss, db, raised) == IF raised THEN ss ELSE close(ss, db)

\* finally: db.close().  raised: whether the request ended in an exception.
get_db_finally(ss, db, raised) == close(ss, db)

Idle == [pc |-> "idle", req |-> NoReq, db |-> 0, resp |-> NoResp]

HasDb(q) == q.ep # "root"

(***************************************************************************)
(* The steps of a request.                                                 *)
(***************************************************************************)
\* A request arrives at worker w: the dependencies of its route are solved
\* (get_db first, then the parameters); a validation error skips the endpoint.
Dispatch(w, q) ==
    /\ workers[w].pc = "idle"
    /\ HasDb(q) => FreeSessions(sessions) # {}
    /\ LET dep == IF HasDb(q) THEN get_db_yield(sessions)
                  ELSE [db |-> 0, sessions |-> sessions]
       IN  /\ sessions' = dep.sessions
           /\ workers' = [workers EXCEPT ![w] =
                            IF ValidParams(q)
                            THEN [pc |-> "endpoint", req |-> q, db |-> dep.db,
                                  resp |-> NoResp]
                            ELSE [pc |-> "teardown", req |-> q, db |-> dep.db,
                                  resp |-> ValidationError]]
    /\ UNCHANGED store

\* A slip: a lookup that creates the record it did not find.
Endpoint_CreatesMissing(w) ==
    /\ workers[w].pc = "endpoint"
    /\ \E up \in BOOLEAN :
          LET r == Outcome(store, workers[w].req, up)
          IN  /\ workers' = [workers EXCEPT ![w].pc = "teardown", ![w].resp = r]
              /\ store' = IF workers[w].req.ep = "read_player" /\ r.status = 404
                          THEN [store EXCEPT !.players = Append(@,
                                  [player_id |-> ParseInt(workers[w].req.path_id[1]),
                                   first_name |-> "", last_name |-> "",
                                   last_changed_date |-> 1])]
                          ELSE store
    /\ UNCHANGED sessions

\* The endpoint function runs; the store answers or is unavailable.
Endpoint(w) ==
    /\ workers[w].pc = "endpoint"
    /\ \E up \in BOOLEAN :
          workers' = [workers EXCEPT ![w].pc = "teardown",
                                     ![w].resp = Outcome(store, workers[w].req, up)]
    /\ UNCHANGED <<store, sessions>>

\* The generator dependency is finalised.
Teardown(w) ==
    /\ workers[w].pc = "teardown"
    /\ sessions' = IF workers[w].db = 0 THEN sessions
                   ELSE get_db_finally(sessions, workers[w].db, workers[w].resp.exc)
    /\ workers' = [workers EXCEPT ![w].pc = "done"]
    /\ UNCHANGED store

\* The response is sent and the session object is dropped.
Respond(w) ==
    /\ workers[w].pc = "done"
    /\ workers' = [workers EXCEPT ![w] = Idle]
    /\ sessions' = IF workers[w].db # 0 /\ sessions[workers[w].db].state = "closed"
                   THEN [sessions EXCEPT ![workers[w].db] =
                            [state |-> "free", closes |-> 0]]
                   ELSE sessions
    /\ UNCHANGED store

Workload == IF Cardinality(DOMAIN workers) = 1 THEN Requests ELSE ConcRequests

Receive == \E w \in DOMAIN workers : workers[w].pc = "idle" /\ \E q \in Workload : Dispatch(w, q)

RunEndpoint == \E w \in DOMAIN workers : Endpoint(w)

Finalise == \E w \in DOMAIN workers : Teardown(w)

Send == \E w \in DOMAIN workers : Respond(w)

Next == Receive \/ RunEndpoint \/ Finalise \/ Send

InitPool(W) ==
    /\ workers = [w \in W |-> Idle]
    /\ sessions = [s \in W |-> [state |-> "free", closes |-> 0]]

\* One worker, every request and every store.
Init == store \in Stores /\ InitPool({1})

Spec == Init /\ [][Next]_vars

\* MaxWorkers workers serving requests concurrently; a request that has started
\* runs to its end.
InitConc == store \in ConcStores /\ InitPool(1..MaxWorkers)

Fairness == \A w \in 1..MaxWorkers : WF_vars(Endpoint(w)) /\ WF_vars(Teardown(w))

ConcSpec == InitConc /\ [][Next]_vars /\ Fairness

(***************************************************************************)
(* What a request asks for, read off the request itself.                   *)
(***************************************************************************)
Answered(w) == workers[w].pc \in {"teardown", "done"}

ListAnswered(w) ==
    /\ Answered(w)
    /\ workers[w].req.ep \in ListEndpoints
    /\ workers[w].resp.status = 200

TableOf(ep) ==
    CASE ep \in {"read_players", "read_player"} -> store.players
      [] ep = "read_performances" -> store.performances
      [] ep \in {"read_leagues", "read_league"} -> store.leagues
      [] ep = "read_teams" -> store.teams

IdOf(ep, r) == IF ep = "read_player" THEN r.player_id ELSE r.league_id

AskedSkip(q) == IF q.skip = None THEN 0 ELSE ParseInt(q.skip[1])
AskedLimit(q) == IF q.limit = None THEN 100 ELSE ParseInt(q.limit[1])

ExactOk(opt, v) == opt = None \/ opt[1] = v

ExactFiltersOk(q, r) ==
    CASE q.ep = "read_players" ->
            ExactOk(q.first_name, r.first_name) /\ ExactOk(q.last_name, r.last_name)
      [] q.ep = "read_leagues" -> ExactOk(q.league_name, r.league_name)
      [] q.ep = "read_teams" ->
            /\ ExactOk(q.team_name, r.team_name)
            /\ q.league_id = None \/ ParseInt(q.league_id[1]) = r.league_id
      [] OTHER -> TRUE

MinDateOk(q, r) ==
    \/ q.minimum_last_changed_date = None
    \/ r.last_changed_date >= ParseDate(q.minimum_last_changed_date[1])

Satisfies(q, r) == ExactFiltersOk(q, r) /\ MinDateOk(q, r)

TotalMatching(q) ==
    Cardinality({ i \in DOMAIN TableOf(q.ep) : Satisfies(q, TableOf(q.ep)[i]) })

Range(f) == { f[i] : i \in DOMAIN f }

Prefix(rows, n) == [i \in 1..Min(n, Len(rows)) |-> rows[i]]

\* C1: a list query with non-negative skip and limit returns only records that
\* satisfy every present filter, and exactly min(limit, max(0, matching - skip))
\* of them.
C1_FilteredThenPaged ==
    \A w \in DOMAIN workers :
        LET q == workers[w].req
            v == workers[w].resp.value
        IN  (ListAnswered(w) /\ AskedSkip(q) >= 0 /\ AskedLimit(q) >= 0) =>
                /\ \A i \in DOMAIN v : Satisfies(q, v[i])
                /\ Len(v) = Min(AskedLimit(q), Max(0, TotalMatching(q) - AskedSkip(q)))

\* A filtered, paged query whose window cuts into the matching records.
C1_Witness ==
    \E w \in DOMAIN workers :
        LET q == workers[w].req
        IN  /\ ListAnswered(w)
            /\ q.first_name # None /\ q.minimum_last_changed_date # None
            /\ AskedSkip(q) = 1 /\ AskedLimit(q) = 1
            /\ Len(workers[w].resp.value) = 1
            /\ TotalMatching(q) = 2
            /\ Len(TableOf(q.ep)) = 3

\* C2: on an unchanged store the unfiltered pages (0, N) and (N, M) are disjoint
\* and their concatenation is the first N+M records in store order.
C2_ConsecutivePages ==
    \A a, b \in DOMAIN workers :
        LET qa == workers[a].req
            qb == workers[b].req
            va == workers[a].resp.value
            vb == workers[b].resp.value
        IN  (/\ a # b
             /\ ListAnswered(a) /\ ListAnswered(b)
             /\ qa.ep = "read_players" /\ qb.ep = "read_players"
             /\ AskedSkip(qa) = 0
             /\ AskedSkip(qb) = AskedLimit(qa)
             /\ AskedLimit(qa) <= Len(store.players)
             /\ AskedLimit(qb) <= Len(store.players)) =>
                /\ va \o vb = Prefix(store.players, AskedLimit(qa) + AskedLimit(qb))
                /\ Range(va) \cap Range(vb) = {}

\* Two consecutive pages answered at the same time, the second one not empty.
C2_Witness ==
    \E a, b \in DOMAIN workers :
        /\ a # b
        /\ ListAnswered(a) /\ ListAnswered(b)
        /\ AskedSkip(workers[a].req) = 0 /\ AskedLimit(workers[a].req) = 1
        /\ AskedSkip(workers[b].req) = 1 /\ AskedLimit(workers[b].req) = 2
        /\ Len(workers[a].resp.value) = 1
        /\ Len(workers[b].resp.value) = 2

\* C3: when the store answers, a lookup of an id that is not in the store ends
\* in a 404 with a message (no server error), and a lookup of an id that is in
\* the store returns exactly that record.
C3_LookupOutcome ==
    \A w \in DOMAIN workers :
        LET q == workers[w].req
            rsp == workers[w].resp
            hits == { i \in DOMAIN TableOf(q.ep) :
                        IdOf(q.ep, TableOf(q.ep)[i]) = ParseInt(q.path_id[1]) }
        IN  (/\ Answered(w)
             /\ q.ep \in LookupEndpoints
             /\ ValidParams(q)
             /\ rsp.detail # "store error") =>
                IF hits = {}
                THEN rsp.status = 404 /\ rsp.detail # "" /\ rsp.value = None
                ELSE /\ rsp.status = 200
                     /\ \E i \in hits : rsp.value = << TableOf(q.ep)[i] >>

\* A lookup of a missing player that ended in 404.
C3_Witness ==
    \E w \in DOMAIN workers :
        /\ workers[w].pc = "done"
        /\ workers[w].req.ep = "read_player"
        /\ workers[w].resp.status = 404
        /\ Len(store.players) > 0

\* C4: a list request with a negative skip or a negative limit ends in a
\* validation error and makes no data-access call.
C4_NegativePaginationRejected ==
    \A w \in DOMAIN workers :
        LET q == workers[w].req
        IN  (/\ workers[w].pc # "idle"
             /\ q.ep \in ListEndpoints
             /\ \/ q.skip # None /\ IsInt(q.skip[1]) /\ ParseInt(q.skip[1]) < 0
                \/ q.limit # None /\ IsInt(q.limit[1]) /\ ParseInt(q.limit[1]) < 0) =>
                /\ workers[w].pc # "endpoint"
                /\ workers[w].resp.status = 422
                /\ workers[w].resp.calls = <<>>

\* C5: with minimum_last_changed_date = D and a window that covers the whole
\* table, a record that passes the other filters is returned exactly when its
\* last-changed date is not earlier than D; with the parameter omitted every
\* such record is returned.
C5_MinDateInclusive ==
    \A w \in DOMAIN workers :
        LET q == workers[w].req
            t == TableOf(q.ep)
            v == workers[w].resp.value
        IN  (/\ ListAnswered(w)
             /\ AskedSkip(q) = 0
             /\ AskedLimit(q) >= Len(t)) =>
                \A i \in DOMAIN t :
                    ExactFiltersOk(q, t[i]) =>
                        (t[i] \in Range(v) <=>
                            \/ q.minimum_last_changed_date = None
                            \/ t[i].last_changed_date
                                 >= ParseDate(q.minimum_last_changed_date[1]))

\* A date that excludes an earlier record and keeps a record of that very date.
C5_Witness ==
    \E w \in DOMAIN workers :
        LET q == workers[w].req
            t == TableOf(q.ep)
            v == workers[w].resp.value
        IN  /\ ListAnswered(w)
            /\ AskedSkip(q) = 0 /\ AskedLimit(q) >= Len(t)
            /\ q.minimum_last_changed_date = Some("2024-06-01")
            /\ \E i \in DOMAIN t : t[i].last_changed_date = 1 /\ t[i] \notin Range(v)
            /\ \E i \in DOMAIN t : t[i].last_changed_date = 2 /\ t[i] \in Range(v)

\* C6: a list query with limit = 0 returns the empty sequence, whatever the
\* store, the filters and the skip.
C6_LimitZeroEmpty ==
    \A w \in DOMAIN workers :
        (/\ ListAnswered(w)
         /\ workers[w].req.limit # None
         /\ ParseInt(workers[w].req.limit[1]) = 0) =>
            workers[w].resp.value = <<>>

\* limit = 0 on a table with matching records after the skip.
C6_Witness ==
    \E w \in DOMAIN workers :
        LET q == workers[w].req
        IN  /\ ListAnswered(w)
            /\ q.limit = Some("0")
            /\ q.skip = Some("1")
            /\ TotalMatching(q) >= 2
            /\ workers[w].resp.value = <<>>

\* C7: each count of get_count is a non-negative integer, the number of records
\* of that kind in the store, and the unfiltered list query with skip = 0 and
\* limit = that count returns that many records.
C7_CountsMatchLists ==
    \A w \in DOMAIN workers :
        (/\ Answered(w)
         /\ workers[w].req.ep = "get_count"
         /\ workers[w].resp.status = 200) =>
            LET c == workers[w].resp.value[1]
            IN  /\ c.league_count >= 0 /\ c.team_count >= 0 /\ c.player_count >= 0
                /\ c.league_count = Len(store.leagues)
                /\ c.team_count = Len(store.teams)
                /\ c.player_count = Len(store.players)
                /\ Len(read_leagues(store, 0, c.league_count, None, None).value)
                      = c.league_count
                /\ Len(read_teams(store, 0, c.team_count, None, None, None).value)
                      = c.team_count
                /\ Len(read_players(store, 0, c.player_count, None, None, None).value)
                      = c.player_count

\* Counts of a store whose three tables differ in size.
C7_Witness ==
    \E w \in DOMAIN workers :
        /\ workers[w].pc = "done"
        /\ workers[w].req.ep = "get_count"
        /\ workers[w].resp.status = 200
        /\ workers[w].resp.value[1].league_count = 1
        /\ workers[w].resp.value[1].team_count = 2
        /\ workers[w].resp.value[1].player_count = 3

\* C8: a list endpoint hands skip = 0 and limit = 100 to the data-access layer
\* when the parameter is omitted and hands an omitted filter on as None; a list
\* request without parameters returns the first min(100, total) records.
C8_Defaults ==
    \A w \in DOMAIN workers :
        LET q == workers[w].req
            rsp == workers[w].resp
        IN  (Answered(w) /\ q.ep \in ListEndpoints /\ rsp.calls # <<>>) =>
                LET call == rsp.calls[1]
                IN  /\ q.skip = None => call.skip = 0
                    /\ q.limit = None => call.limit = 100
                    /\ q.minimum_last_changed_date = None =>
                          call.min_last_changed_date = None
                    /\ \A f \in DOMAIN call.filters :
                          q[f] = None => call.filters[f] = None
                    /\ (rsp.status = 200 /\ q = [NoReq EXCEPT !.ep = q.ep]) =>
                          rsp.value = Prefix(TableOf(q.ep), 100)

\* A request without parameters on a table of more than 100 records.
C8_Witness ==
    \E w \in DOMAIN workers :
        LET q == workers[w].req
        IN  /\ ListAnswered(w)
            /\ q = [NoReq EXCEPT !.ep = q.ep]
            /\ Len(TableOf(q.ep)) > 100
            /\ Len(workers[w].resp.value) = 100

\* C9: no step of any request changes the store.
C9_StoreUnchanged == [][store' = store]_vars

\* A lookup of a missing league that has ended.
C9_Witness ==
    \E w \in DOMAIN workers :
        /\ workers[w].pc = "done"
        /\ workers[w].req.ep = "read_league"
        /\ workers[w].resp.status = 404
        /\ Len(store.leagues) > 0

SessionsWellKept ==
    /\ \A w \in DOMAIN workers :
          LET k == workers[w]
          IN  /\ (k.pc # "idle" /\ k.req.ep = "root") => k.db = 0
              /\ (k.pc # "idle" /\ k.req.ep # "root") => k.db # 0
              /\ (k.pc \in {"endpoint", "teardown"} /\ k.db # 0) =>
                    sessions[k.db] = [state |-> "open", closes |-> 0]
              /\ (k.pc = "done" /\ k.db # 0) =>
                    sessions[k.db] = [state |-> "closed", closes |-> 1]
    /\ \A a, b \in DOMAIN workers :
          (a # b /\ workers[a].db # 0) => workers[a].db # workers[b].db
    /\ \A s \in DOMAIN sessions :
          sessions[s].state # "free" => \E w \in DOMAIN workers : workers[w].db = s

\* C10: a request that obtained a session from get_db has it closed exactly once
\* when it ends, however it ends; every open session is eventually closed; no
\* two requests hold the same session; the health check opens none.
C10_SessionClosedOnce ==
    /\ []SessionsWellKept
    /\ \A s \in 1..MaxWorkers :
          (sessions[s].state = "open") ~> (sessions[s].state = "closed")

\* A request that ended in 404 with its session closed while another request
\* holds an open session of its own.
C10_Witness ==
    \E a, b \in DOMAIN workers :
        /\ workers[a].pc = "done"
        /\ workers[a].resp.status = 404
        /\ sessions[workers[a].db] = [state |-> "closed", closes |-> 1]
        /\ workers[b].pc = "teardown"
        /\ workers[b].resp.status = 500
        /\ sessions[workers[b].db].state = "open"
====
